---- MODULE Spec2Model ----
(***************************************************************************)
(* Mimic training of Mask R-CNN (optimization/mimicking.py).               *)
(*                                                                         *)
(* Five parts of the program are modelled, each with its own               *)
(* specification over the same variables:                                  *)
(*   SpecBuild  MimicMaskRCNN.build / compile / train                      *)
(*   SpecNms    s_ProposalLayer's s_nms under utils.batch_slice            *)
(*   SpecLoss   rpn_mimic_loss_graph                                       *)
(*   SpecBox    s_apply_box_deltas_graph and s_clip_boxes_graph            *)
(*   SpecCrop   the pixel coordinates of rpn_mimic_loss_graph              *)
(* The loss is computed on exact rationals plus NaN, with boxes on a grid  *)
(* on which every float32 operation of the code is exact.  SpecBox and     *)
(* SpecCrop compute in float32, with its rounding.                         *)
(***************************************************************************)
EXTENDS Integers, Sequences, FiniteSets, TLC

VARIABLES
    \* ---- MimicMaskRCNN (build / compile / train) ----
    pcB,            \* "new", "built", "failed", "trained", "compile_failed"
    mode,           \* the mode argument of build
    IMAGE_SHAPE,    \* config.IMAGE_SHAPE[:2]
    TEACHER_BACKBONE, STUDENT_BACKBONE,
    error,          \* the exception build raised, or "none"
    inputs,         \* names of the KL.Input tensors created
    layers,         \* layers that own weights: [name, kind, trainable]
    plain,          \* names of the weightless layers created
    outputs,        \* outputs of the returned KM.Model (<<>> when none)
    LOSS_WEIGHTS,   \* config.LOSS_WEIGHTS: loss name -> weight
    losses,         \* keras_model._losses after compile
    updated,        \* names of layers whose weights the optimizer changed
    feature_maps,   \* the spatial dimensions of the student's [C1, ..., C5]
    \* ---- s_ProposalLayer: s_nms over the batch ----
    pcN,            \* "idle", "new", "run", "error", "done"
    proposal_count, nms_threshold,
    nmsBoxes,       \* per image: sequence of clipped boxes
    nmsScores,      \* per image: sequence of scores
    survivors,      \* per image: the boxes tf.gather returned
    proposals,      \* per image: the padded output of s_nms
    \* ---- rpn_mimic_loss_graph ----
    pcL,            \* "idle", "start", "loop", "level_done", "done"
    image_shape,    \* image shape read from image_meta
    boxes,          \* [image -> [roi -> box]] in units of 1/Grid
    maps,           \* descriptor of the student and teacher maps
    roi_level,      \* [image -> [roi -> level]]
    i,              \* index of the pyramid level being processed (0..3)
    level_boxes, box_indices,   \* the padded per-level lists
    idx, loss_temp, \* loop variables of tf.while_loop
    loss,           \* running total over the levels
    visited,        \* the pairs <<i, idx>> the body ran with, in the order of the runs
    \* ---- s_apply_box_deltas_graph, s_clip_boxes_graph ----
    pcX,            \* "idle", "start", "refined", "clipped"
    anchor,         \* one row of pre_nms_anchors (float32)
    deltas,         \* the row of deltas that belongs to it
    refined,        \* the row of s_apply_box_deltas_out
    clipped,        \* the row of s_clipped_boxes
    \* ---- pixel coordinates of a level box ----
    pcC,            \* "idle", "start", "cropped", "sliced", "error"
    cropBox,        \* one row of level_boxes (float32)
    cropShape,      \* config.IMAGE_SHAPE[:2]
    cropLevel,      \* the index i of the pyramid level
    cropPix         \* [y1, x1, h, w]: the begin and the size given to tf.slice

buildVars == <<pcB, mode, IMAGE_SHAPE, TEACHER_BACKBONE, STUDENT_BACKBONE, error,
               inputs, layers, plain, outputs, LOSS_WEIGHTS, losses, updated,
               feature_maps>>
nmsVars   == <<pcN, proposal_count, nms_threshold, nmsBoxes, nmsScores,
               survivors, proposals>>
lossVars  == <<pcL, image_shape, boxes, maps, roi_level, i, level_boxes,
               box_indices, idx, loss_temp, loss, visited>>
boxVars   == <<pcX, anchor, deltas, refined, clipped>>
cropVars  == <<pcC, cropBox, cropShape, cropLevel, cropPix>>
vars      == <<buildVars, nmsVars, lossVars, boxVars, cropVars>>

(***************************************************************************)
(* Layer names are sequences of characters, so that prefixes and           *)
(* substrings are computed and not assumed.                                *)
(***************************************************************************)
s_prefix   == <<"s", "_">>
t_prefix   == << >>
n_res      == <<"r", "e", "s">>
n_bn       == <<"b", "n">>
n_branch   == <<"_", "b", "r", "a", "n", "c", "h">>
n_conv1    == <<"c", "o", "n", "v", "1">>
n_bn_conv1 == <<"b", "n", "_", "c", "o", "n", "v", "1">>
n_fpn      == <<"f", "p", "n", "_">>
n_rpn      == <<"r", "p", "n", "_">>
n_conv_shared == <<"c", "o", "n", "v", "_", "s", "h", "a", "r", "e", "d">>
n_class_raw   == <<"c", "l", "a", "s", "s", "_", "r", "a", "w">>
n_bbox_pred   == <<"b", "b", "o", "x", "_", "p", "r", "e", "d">>
n_transformer_conv ==
   <<"t", "r", "a", "n", "s", "f", "o", "r", "m", "e", "r", "_", "c", "o", "n", "v">>

\* str(stage) for the stages of the backbone
StageStr == [s \in 2..5 |-> << (<<"2", "3", "4", "5">>)[s - 1] >>]
\* chr(97 + k): the block letters 'a', 'b', ...
Letters == <<"a", "b", "c", "d", "e", "f", "g", "h", "i", "j", "k", "l", "m",
             "n", "o", "p", "q", "r", "s", "t", "u", "v", "w", "x", "y", "z">>
Chr97(k) == <<Letters[k + 1]>>

Layer(name, kind) == [name |-> name, kind |-> kind, trainable |-> TRUE]

\* the three convolutions and normalisations of the main path of a block
MainPath(prefix, stage, block) ==
    LET conv_name_base == prefix \o n_res \o StageStr[stage] \o block \o n_branch
        bn_name_base   == prefix \o n_bn \o StageStr[stage] \o block \o n_branch
    IN  UNION { { Layer(conv_name_base \o <<"2", c>>, "conv"),
                  Layer(bn_name_base \o <<"2", c>>, "bn") } : c \in {"a", "b", "c"} }

s_identity_block(prefix, stage, block) == MainPath(prefix, stage, block)

s_conv_block(prefix, stage, block) ==
    MainPath(prefix, stage, block) \cup
    { Layer(prefix \o n_res \o StageStr[stage] \o block \o n_branch \o <<"1">>, "conv"),
      Layer(prefix \o n_bn \o StageStr[stage] \o block \o n_branch \o <<"1">>, "bn") }

Architectures == {"resnet50", "resnet101"}
block_count(architecture) == IF architecture = "resnet50" THEN 5 ELSE 22

s_resnet_graph(prefix, architecture) ==
    { Layer(prefix \o n_conv1, "conv"), Layer(prefix \o n_bn_conv1, "bn") }
    \cup s_conv_block(prefix, 2, <<"a">>)
    \cup s_identity_block(prefix, 2, <<"b">>) \cup s_identity_block(prefix, 2, <<"c">>)
    \cup s_conv_block(prefix, 3, <<"a">>)
    \cup s_identity_block(prefix, 3, <<"b">>) \cup s_identity_block(prefix, 3, <<"c">>)
    \cup s_identity_block(prefix, 3, <<"d">>)
    \cup s_conv_block(prefix, 4, <<"a">>)
    \cup UNION { s_identity_block(prefix, 4, Chr97(1 + k)) :
                    k \in 0..(block_count(architecture) - 1) }
    \cup s_conv_block(prefix, 5, <<"a">>)
    \cup s_identity_block(prefix, 5, <<"b">>) \cup s_identity_block(prefix, 5, <<"c">>)

(***************************************************************************)
(* The spatial size (height or width) of the tensors of s_resnet_graph     *)
(***************************************************************************)
ZeroPadding2D(n, pad) == n + 2 * pad

\* KL.Conv2D / KL.MaxPooling2D with padding="valid" (the default of Conv2D)
ValidSize(n, kernel, stride) == (n - kernel) \div stride + 1
\* ... with padding="same"
SameSize(n, stride) == (n + stride - 1) \div stride

\* KL.Add needs operands of one size; 0 stands for the error
AddSize(a, b) == IF a = b THEN a ELSE 0

s_identity_block_size(n) ==
    LET x2a == ValidSize(n, 1, 1)
        x2b == SameSize(x2a, 1)
        x2c == ValidSize(x2b, 1, 1)
    IN  AddSize(x2c, n)

s_conv_block_size(n, strides) ==
    LET x2a == ValidSize(n, 1, strides)
        x2b == SameSize(x2a, 1)
        x2c == ValidSize(x2b, 1, 1)
        shortcut == ValidSize(n, 1, strides)
    IN  AddSize(x2c, shortcut)

RECURSIVE IdentityBlocks(_, _)
IdentityBlocks(n, count) ==
    IF count = 0 \/ n = 0 THEN n ELSE IdentityBlocks(s_identity_block_size(n), count - 1)

\* every stage entered with strides (2, 2)
StageStridesAllTwo(stage) == 2

\* stage 2 is entered with strides=(1, 1), the later stages with the default (2, 2)
StageStrides(stage) == IF stage = 2 THEN 1 ELSE 2

\* the sizes of [C1, C2, C3, C4, C5] for an input of size n
s_resnet_shapes(n, architecture) ==
    LET C1 == SameSize(ValidSize(ZeroPadding2D(n, 3), 7, 2), 2)
        C2 == IdentityBlocks(s_conv_block_size(C1, StageStrides(2)), 2)
        C3 == IdentityBlocks(s_conv_block_size(C2, StageStrides(3)), 3)
        C4 == IdentityBlocks(s_conv_block_size(C3, StageStrides(4)), block_count(architecture))
        C5 == IdentityBlocks(s_conv_block_size(C4, StageStrides(5)), 2)
    IN  <<C1, C2, C3, C4, C5>>

\* the convolutions of the teacher's top-down pyramid (fpn_c5p5 ... fpn_p5)
TeacherPyramid ==
    { Layer(n_fpn \o <<"c", l, "p", l>>, "conv") : l \in {"2", "3", "4", "5"} }
    \cup { Layer(n_fpn \o <<"p", l>>, "conv") : l \in {"2", "3", "4", "5"} }

\* the convolutions of the student's pyramid (s_fpn_s5q5 ... s_fpn_q5)
StudentPyramid ==
    { Layer(s_prefix \o n_fpn \o <<"s", l, "q", l>>, "conv") : l \in {"2", "3", "4", "5"} }
    \cup { Layer(s_prefix \o n_fpn \o <<"q", l>>, "conv") : l \in {"2", "3", "4", "5"} }

s_rpn_graph(prefix) ==
    { Layer(prefix \o n_rpn \o n_conv_shared, "conv"),
      Layer(prefix \o n_rpn \o n_class_raw, "conv"),
      Layer(prefix \o n_rpn \o n_bbox_pred, "conv") }

build_transformer_layer == { Layer(s_prefix \o n_transformer_conv, "conv") }

TeacherLayers(arch) == s_resnet_graph(t_prefix, arch) \cup TeacherPyramid
StudentLayers(arch) ==
    s_resnet_graph(s_prefix, arch) \cup StudentPyramid \cup s_rpn_graph(s_prefix)

TeacherPlain == {"fpn_p4add", "fpn_p5upsampled", "fpn_p3add", "fpn_p4upsampled",
                 "fpn_p2add", "fpn_p3upsampled"}
StudentPlain == {"s_fpn_q4add", "s_fpn_q5upsampled", "s_fpn_q3add", "s_fpn_q4upsampled",
                 "s_fpn_q2add", "s_fpn_q3upsampled", "s_fpn_q6",
                 "s_rpn_class_xxx", "s_rpn_class_logits", "s_rpn_class", "s_rpn_bbox",
                 "anchors", "s_ROI"}
TrainingInputs == {"input_rpn_match", "input_rpn_bbox", "input_gt_class_ids",
                   "input_gt_boxes", "input_gt_masks"}
LossLayers == {"rpn_class_loss", "rpn_bbox_loss", "rpn_mimic_loss"}

(***************************************************************************)
(* MimicMaskRCNN.build                                                     *)
(***************************************************************************)
Modes == {"training", "inference", "training_RPN"}

MaxAnchors == 2
MaxProposalCount == 2
IMAGES_PER_GPU == 2

\* the same test with a floor division, which loses the remainder
NotDividableFloorDiv(h) == (h \div (2 ^ 6)) # (h \div (2 ^ 6))

\* h / 2 ** 6 != int(h / 2 ** 6): true division, then truncation
NotDividable(h) == h % (2 ^ 6) # 0

ModelOutputs == <<"s_rpn_class_logits", "s_rpn_class", "s_rpn_bbox", "s_rpn_rois",
                  "rpn_class_loss", "rpn_bbox_loss", "rpn_mimic_loss">>

\* everything build creates up to and including the proposal layer s_ROI
DetectionPathLayers == TeacherLayers(TEACHER_BACKBONE) \cup StudentLayers(STUDENT_BACKBONE)
DetectionPathPlain  == TeacherPlain \cup StudentPlain

Build ==
    /\ pcB = "new"
    /\ UNCHANGED <<mode, IMAGE_SHAPE, TEACHER_BACKBONE, STUDENT_BACKBONE, LOSS_WEIGHTS,
                   losses, updated>>
    /\ IF mode \in {"training", "inference"}
          /\ ~NotDividable(IMAGE_SHAPE[1]) /\ ~NotDividable(IMAGE_SHAPE[2])
       THEN /\ feature_maps' = [k \in 1..5 |->
                   << s_resnet_shapes(IMAGE_SHAPE[1], STUDENT_BACKBONE)[k],
                      s_resnet_shapes(IMAGE_SHAPE[2], STUDENT_BACKBONE)[k] >>]
       ELSE UNCHANGED feature_maps
    /\ IF mode \notin {"training", "inference"}
       THEN \* assert mode in ['training', 'inference']
            /\ error' = "AssertionError"
            /\ pcB' = "failed"
            /\ UNCHANGED <<inputs, layers, plain, outputs>>
       ELSE IF NotDividable(IMAGE_SHAPE[1]) \/ NotDividable(IMAGE_SHAPE[2])
       THEN \* raise Exception("Image size must be dividable by 2 ...")
            /\ error' = "Exception"
            /\ pcB' = "failed"
            /\ UNCHANGED <<inputs, layers, plain, outputs>>
       ELSE IF mode = "training"
       THEN /\ inputs' = {"input_image", "input_image_meta"} \cup TrainingInputs
            /\ layers' = DetectionPathLayers \cup build_transformer_layer
            /\ plain' = DetectionPathPlain \cup {"proposal_targets"} \cup LossLayers
            /\ outputs' = ModelOutputs
            /\ error' = "none"
            /\ pcB' = "built"
       ELSE \* mode = "inference": the names input_gt_class_ids, gt_boxes and
            \* input_gt_masks were never bound, so the call of
            \* DetectionTargetLayer raises NameError and no model is returned
            /\ inputs' = {"input_image", "input_image_meta"}
            /\ layers' = DetectionPathLayers
            /\ plain' = DetectionPathPlain
            /\ outputs' = << >>
            /\ error' = "NameError"
            /\ pcB' = "failed"

(***************************************************************************)
(* MimicMaskRCNN.train: set_trainable, compile, fit_generator              *)
(***************************************************************************)
\* a layer regular expression: the literal lit, followed by ".*" when star
Regex(lit, star) == [lit |-> lit, star |-> star]

\* the values of the layers argument that are tried
LayerArgs == {"all", ".*", "fpn.*", "heads"}

\* Pre-defined layer regular expressions: only the key "all" is translated
layer_regex(arg) ==
    CASE arg = "all"     -> Regex(s_prefix, TRUE)
      [] arg = ".*"      -> Regex(<< >>, TRUE)
      [] arg = "fpn.*"   -> Regex(<<"f", "p", "n">>, TRUE)
      [] arg = "heads"   -> Regex(<<"h", "e", "a", "d", "s">>, FALSE)

StartsWith(name, p) == Len(name) >= Len(p) /\ SubSeq(name, 1, Len(p)) = p

\* re.fullmatch(layer_regex, layer.name)
fullmatch(re, name) ==
    StartsWith(name, re.lit) /\ (re.star \/ Len(name) = Len(re.lit))

\* self.set_trainable(layers): every layer with weights gets
\* trainable = bool(re.fullmatch(layer_regex, layer.name))
set_trainable(re, ls) ==
    { [l EXCEPT !.trainable = fullmatch(re, l.name)] : l \in ls }

\* the weights of a layer that the optimizer may update
TrainableParams(l) ==
    IF ~l.trainable THEN {}
    ELSE IF l.kind = "conv" THEN {"kernel", "bias"} ELSE {"gamma", "beta"}

\* w.name: the layer's name, "/", and the name of the parameter
ParamChars(p) ==
    CASE p = "kernel" -> <<"k", "e", "r", "n", "e", "l">>
      [] p = "bias"   -> <<"b", "i", "a", "s">>
      [] p = "gamma"  -> <<"g", "a", "m", "m", "a">>
      [] p = "beta"   -> <<"b", "e", "t", "a">>
WeightName(w) == w[1] \o <<"/">> \o ParamChars(w[2])

\* sub in name
Contains(name, sub) ==
    \E k \in 1..(Len(name) - Len(sub) + 1) : SubSeq(name, k, k + Len(sub) - 1) = sub

trainable_weights(ls) ==
    UNION { { <<l.name, p>> : p \in TrainableParams(l) } : l \in ls }

loss_names == <<"rpn_class_loss", "rpn_bbox_loss", "rpn_mimic_loss">>

\* self.config.LOSS_WEIGHTS.get(name, 1.)
LossWeight(name) ==
    IF name \in DOMAIN LOSS_WEIGHTS THEN LOSS_WEIGHTS[name] ELSE 1

\* the list of losses left as it is
keep_losses(old) == old

\* self.keras_model._losses = []
clear_losses(old) == << >>

\* layer.output, and the term add_loss gets for it:
\* tf.reduce_mean(layer.output) * LOSS_WEIGHTS.get(name, 1.)
LayerOutput(name) == [kind |-> "output", name |-> name, weight |-> 1, over |-> {}]
WeightedLoss(name) ==
    [kind |-> "loss", name |-> name, weight |-> LossWeight(name), over |-> {}]

\* for name in loss_names: skip when layer.output is among the losses, else add_loss
RECURSIVE AddLosses(_, _)
AddLosses(ls, k) ==
    IF k > Len(loss_names) THEN ls
    ELSE IF \E j \in 1..Len(ls) : ls[j] = LayerOutput(loss_names[k])
    THEN AddLosses(ls, k + 1)
    ELSE AddLosses(Append(ls, WeightedLoss(loss_names[k])), k + 1)

\* the weights of reg_losses: trainable, 'gamma' and 'beta' not in w.name
reg_weights(ls) ==
    { w \in trainable_weights(ls) :
        /\ ~Contains(WeightName(w), ParamChars("gamma"))
        /\ ~Contains(WeightName(w), ParamChars("beta")) }

\* the losses compile leaves registered: it clears the list, adds one term per
\* loss name and then the L2 term; tf.add_n of an empty list raises
\* ValueError, and then the L2 term is not added
compile(ls, old) ==
    LET added == AddLosses(clear_losses(old), 1)
        over  == reg_weights(ls)
    IN  IF over = {} THEN added
        ELSE Append(added, [kind |-> "l2", name |-> "reg", weight |-> 1, over |-> over])

Train(arg) ==
    /\ pcB \in {"built", "trained", "compile_failed"}
    /\ LET ls == set_trainable(layer_regex(arg), layers)
       IN  /\ layers' = ls
           /\ losses' = compile(ls, losses)
           /\ IF \A k \in 1..Len(losses') : losses'[k].kind # "l2"
              THEN \* ValueError out of tf.add_n: train ends before fit_generator
                   /\ error' = "ValueError"
                   /\ pcB' = "compile_failed"
                   /\ UNCHANGED updated
              ELSE \* fit_generator: the optimizer updates the trainable weights
                   /\ error' = "none"
                   /\ pcB' = "trained"
                   /\ updated' = updated \cup { w[1] : w \in trainable_weights(ls) }
    /\ UNCHANGED <<mode, IMAGE_SHAPE, TEACHER_BACKBONE, STUDENT_BACKBONE, LOSS_WEIGHTS,
                   inputs, plain, outputs, feature_maps>>

(***************************************************************************)
(* Numbers.  A float is modelled as an exact rational or NaN.              *)
(***************************************************************************)
\* Euclid's algorithm, as a function so that every step works on values
GcdOf[p \in Nat \X Nat] == IF p[2] = 0 THEN p[1] ELSE GcdOf[<<p[2], p[1] % p[2]>>]
Gcd(a, b) == GcdOf[<<a, b>>]

Abs(a) == IF a < 0 THEN -a ELSE a

NaN == [nan |-> TRUE, num |-> 0, den |-> 1]

Rat(n, d) ==
    LET g == Gcd(Abs(n), d)
    IN  IF n = 0 THEN [nan |-> FALSE, num |-> 0, den |-> 1]
        ELSE [nan |-> FALSE, num |-> n \div g, den |-> d \div g]

Zero == Rat(0, 1)

\* a + b: NaN absorbs
AddF(a, b) ==
    IF a.nan \/ b.nan THEN NaN
    ELSE Rat(a.num * b.den + b.num * a.den, a.den * b.den)

\* a / k for an integer k: 0/0 is NaN
DivF(a, k) ==
    IF a.nan \/ k = 0 THEN NaN ELSE Rat(a.num, a.den * k)

\* floor and ceil of n / d, d > 0
Floor(n, d) == n \div d
Ceil(n, d)  == -((-n) \div d)

Min(a, b) == IF a < b THEN a ELSE b
Max(a, b) == IF a > b THEN a ELSE b

(***************************************************************************)
(* rpn_mimic_loss_graph                                                    *)
(***************************************************************************)
\* the boxes are (y1, x1, y2, x2) in units of 1/Grid of the image side
Grid == 8

BATCH_SIZE == 2
TRAIN_ROIS_PER_IMAGE == 2
num_boxes_batch == BATCH_SIZE * TRAIN_ROIS_PER_IMAGE

\* config.BACKBONE_STRIDES[i] for i = 0..3
BACKBONE_STRIDES == <<4, 8, 16, 32>>

ZeroBox == <<0, 0, 0, 0>>

\* static_cast<int32> of -inf, as tf.cast gives it
Int32Min == -2147483647 - 1

\* 2 ^ e <= n / d, resp. 2 ^ e < n / d, resp. equality, for any integer e
Pow2Le(e, n, d) == IF e >= 0 THEN (2 ^ e) * d <= n ELSE d <= n * (2 ^ (-e))
Pow2Eq(e, n, d) == IF e >= 0 THEN (2 ^ e) * d = n ELSE d = n * (2 ^ (-e))

\* the range in which tf.round(log2(...)) is searched; outside of it the
\* result is reported as RoundLo - 1 or RoundHi + 1
RoundLo == 0 - 3
RoundHi == 0 + 1

\* tf.round(log2(sqrt(n / d))) for n / d > 0: the integer r nearest to
\* log2(n / d) / 2, a tie going to the even neighbour
RoundLog2Sqrt(n, d) ==
    LET Below(r) == \* log2(sqrt(n/d)) rounds to something < r
            \/ ~Pow2Le(2 * r - 1, n, d)
            \/ (Pow2Eq(2 * r - 1, n, d) /\ r % 2 # 0)
        S == { r \in RoundLo..RoundHi : ~Below(r) }
    IN  IF S = {} THEN RoundLo - 1
        ELSE IF Below(RoundHi + 1) THEN CHOOSE r \in S : \A q \in S : q <= r
        ELSE RoundHi + 1

\* the level without the clamp to [2, 5]
RoiLevelUnclamped(box, shape) ==
    LET n == (box[3] - box[1]) * (box[4] - box[2]) * shape[1] * shape[2]
    IN  4 + (IF n = 0 THEN Int32Min ELSE RoundLog2Sqrt(n, Grid * Grid * 224 * 224))

\* roi_level of one box: lines 383-392
RoiLevel(box, shape) ==
    LET h == box[3] - box[1]
        w == box[4] - box[2]
        image_area == shape[1] * shape[2]
        \* (sqrt(h * w) / (224 / sqrt(image_area))) ^ 2 as a fraction
        n == h * w * image_area
        d == Grid * Grid * 224 * 224
        rounded == IF n = 0 THEN Int32Min ELSE RoundLog2Sqrt(n, d)
    IN  Min(5, Max(2, 4 + rounded))

RoiLevels(bx, shape) ==
    [b \in 1..BATCH_SIZE |-> [r \in 1..TRAIN_ROIS_PER_IMAGE |-> RoiLevel(bx[b][r], shape)]]

\* tf.where(tf.equal(roi_level, level)): the indices in row-major order
RECURSIVE WhereFrom(_, _, _)
WhereFrom(lv, level, k) ==
    IF k >= num_boxes_batch THEN << >>
    ELSE LET b == (k \div TRAIN_ROIS_PER_IMAGE) + 1
             r == (k % TRAIN_ROIS_PER_IMAGE) + 1
         IN  (IF lv[b][r] = level THEN << <<b, r>> >> ELSE << >>)
             \o WhereFrom(lv, level, k + 1)

Where(lv, level) == WhereFrom(lv, level, 0)

\* a pad that is one entry short
pad_one_short(seq, P, zero) == seq \o [k \in 1..(P - 1) |-> zero]

\* tf.pad(seq, [(0, P)]) with the value zero
Pad(seq, P, zero) == seq \o [k \in 1..P |-> zero]

\* level_boxes and box_indices of the level: lines 399-407
LevelBoxes(bx, lv, level) ==
    LET ix == Where(lv, level)
        gathered == [k \in 1..Len(ix) |-> bx[ix[k][1]][ix[k][2]]]
        P == num_boxes_batch - Len(gathered)
    IN  Pad(gathered, P, ZeroBox)

BoxIndices(lv, level) ==
    LET ix == Where(lv, level)
        first == [k \in 1..Len(ix) |-> ix[k][1] - 1]
        P == num_boxes_batch - Len(first)
    IN  Pad(first, P, 0)

\* pixel coordinates of a box on the map of pyramid level index lvl: lines 409-419
Crop(box, lvl, shape) ==
    LET sd == Grid * BACKBONE_STRIDES[lvl + 1]
        y1_p == Floor(box[1] * shape[1], sd)
        x1_p == Floor(box[2] * shape[2], sd)
        y2_p == Ceil(box[3] * shape[1], sd)
        x2_p == Ceil(box[4] * shape[2], sd)
    IN  [y1 |-> y1_p, x1 |-> x1_p, h |-> y2_p - y1_p, w |-> x2_p - x1_p]

\* the feature maps: the teacher's values are fixed, the transformed student's
\* values differ from them as the descriptor mp.kind says; mp.order[b] is the
\* image held by batch slot b
MapKinds == {"same", "shift", "bottom"}
MapH(lvl, shape) == shape[1] \div BACKBONE_STRIDES[lvl + 1]
MapW(lvl, shape) == shape[2] \div BACKBONE_STRIDES[lvl + 1]

Teacher(mp, lvl, b, y, x) == (y + 2 * x + mp.order[b + 1] + lvl) % 3

Student(mp, lvl, b, y, x, shape) ==
    Teacher(mp, lvl, b, y, x)
    + (CASE mp.kind = "same"   -> 0
         [] mp.kind = "shift"  -> mp.order[b + 1]
         [] mp.kind = "bottom" -> IF y = MapH(lvl, shape) - 1 THEN 1 ELSE 0)

\* sum over the crop of tf.square(s_cropped - t_cropped), row by row
RowSumSq(mp, lvl, b, c, shape, y, x) ==
    LET sum[p \in Int \X Int] ==
            IF p[1] >= p[2] THEN 0
            ELSE LET diff == Student(mp, lvl, b, y, p[1], shape)
                             - Teacher(mp, lvl, b, y, p[1])
                 IN  diff * diff + sum[<<p[1] + 1, p[2]>>]
    IN  sum[<<x, c.x1 + c.w>>]

SumSq(mp, lvl, b, c, shape, y) ==
    LET sum[p \in Int \X Int \X Int \X Int] ==
            IF p[1] >= p[2] THEN 0
            ELSE RowSumSq(mp, lvl, b, [x1 |-> p[3], w |-> p[4]], shape, p[1], p[3])
                 + sum[<<p[1] + 1, p[2], p[3], p[4]>>]
    IN  sum[<<y, c.y1 + c.h, c.x1, c.w>>]

\* tf.slice accepts the crop: begin >= 0, size >= 0, begin + size <= dimension
SliceOk(c, lvl, shape) ==
    /\ c.y1 >= 0 /\ c.x1 >= 0 /\ c.h >= 0 /\ c.w >= 0
    /\ c.y1 + c.h <= MapH(lvl, shape)
    /\ c.x1 + c.w <= MapW(lvl, shape)

\* tf.reduce_mean over the crop: the mean of an empty tensor is 0/0 = NaN
reduce_mean(mp, lvl, b, c, shape) ==
    IF c.h * c.w = 0 THEN NaN
    ELSE Rat(SumSq(mp, lvl, b, c, shape, c.y1), c.h * c.w)

\* the test with <= in the place of <
cond_inclusive(k) == k <= num_boxes_batch

cond(k) == k < num_boxes_batch

\* body(idx, loss) returns [idx + 1, loss + mean]
body(mp, lvl, shape, lb, bi, k, acc) ==
    LET c == Crop(lb[k + 1], lvl, shape)
    IN  <<k + 1, AddF(acc, reduce_mean(mp, lvl, bi[k + 1], c, shape))>>

(***************************************************************************)
(* s_ProposalLayer.call: s_nms applied to every image by utils.batch_slice *)
(***************************************************************************)
BoxArea(a) == (Max(a[1], a[3]) - Min(a[1], a[3])) * (Max(a[2], a[4]) - Min(a[2], a[4]))

Intersection(a, b) ==
    LET ih == Min(Max(a[1], a[3]), Max(b[1], b[3])) - Max(Min(a[1], a[3]), Min(b[1], b[3]))
        iw == Min(Max(a[2], a[4]), Max(b[2], b[4])) - Max(Min(a[2], a[4]), Min(b[2], b[4]))
    IN  Max(ih, 0) * Max(iw, 0)

\* IoU(a, b) > thr, thr = <<numerator, denominator>>; a box without area
\* has IoU 0 with every box
IoUGreater(a, b, thr) ==
    /\ BoxArea(a) > 0 /\ BoxArea(b) > 0
    /\ Intersection(a, b) * thr[2]
          > thr[1] * (BoxArea(a) + BoxArea(b) - Intersection(a, b))

\* tf.image.non_max_suppression(boxes, scores, max_output_size, iou_threshold):
\* the candidates are visited by descending score (order), one is selected
\* unless its IoU with a selected box exceeds the threshold, and the
\* selection stops at max_output_size
RECURSIVE NmsFrom(_, _, _, _, _, _)
NmsFrom(bxs, order, max_output_size, thr, k, selected) ==
    IF k > Len(order) \/ Len(selected) >= max_output_size THEN selected
    ELSE LET cand == order[k]
             keep == \A j \in 1..Len(selected) : ~IoUGreater(bxs[cand], bxs[selected[j]], thr)
         IN  NmsFrom(bxs, order, max_output_size, thr, k + 1,
                     IF keep THEN Append(selected, cand) ELSE selected)

non_max_suppression(bxs, order, max_output_size, thr) ==
    NmsFrom(bxs, order, max_output_size, thr, 1, << >>)

\* the visiting orders a score vector allows: descending score
Orders(scores) ==
    LET n == Len(scores)
    IN  { o \in [1..n -> 1..n] :
            /\ \A p, q \in 1..n : p # q => o[p] # o[q]
            /\ \A p, q \in 1..n : p < q => scores[o[p]] >= scores[o[q]] }

\* tf.gather(boxes, indices)
Gather(bxs, indices) == [k \in 1..Len(indices) |-> bxs[indices[k]]]

\* padding by the full count, whatever survived
s_nms_pad_full(gathered, count) == Pad(gathered, count, ZeroBox)

\* s_nms: "Pad if needed"
s_nms_pad(gathered, count) ==
    LET padding == Max(count - Len(gathered), 0)
    IN  Pad(gathered, padding, ZeroBox)

\* the clipped boxes offered to s_nms, in units of 1/Grid
NmsBoxChoices == { <<0, 0, 8, 6>>, <<0, 2, 8, 8>>, <<0, 0, 8, 8>>, ZeroBox }
NmsThresholds == { <<1, 2>>, <<3, 10>> }

\* tf.nn.top_k(..., sorted=True) hands the candidates over by descending score
NmsInputs ==
    UNION { { [bxs |-> bs, scores |-> [k \in 1..n |-> n + 1 - k]] :
                bs \in [1..n -> NmsBoxChoices] } : n \in 0..MaxAnchors }

\* the call with the threshold left out of the suppression (IoU is never above 1)
s_nms_indices_no_threshold(bxs, order, count, thr) ==
    non_max_suppression(bxs, order, count, <<1, 1>>)

\* the call of tf.image.non_max_suppression in s_nms
s_nms_indices(bxs, order, count, thr) == non_max_suppression(bxs, order, count, thr)

\* the proposal settings of the configuration build is given
ProposalCounts == 0..MaxProposalCount
NmsThresholdSettings == NmsThresholds \cup { <<3, 2>> }

\* build creates the layer: s_ProposalLayer(proposal_count=..., nms_threshold=
\* config.RPN_NMS_THRESHOLD, ...), and __init__ stores the arguments as they come
s_ProposalLayer_init(count, threshold) ==
    /\ pcN = "new"
    /\ proposal_count' = count
    /\ nms_threshold' = threshold
    /\ pcN' = "run"
    /\ UNCHANGED <<nmsBoxes, nmsScores, survivors, proposals>>
    /\ UNCHANGED <<buildVars, lossVars, boxVars, cropVars>>

\* the kernel of tf.image.non_max_suppression: "iou_threshold must be in [0, 1]"
ThresholdInRange(thr) == 0 <= thr[1] /\ thr[1] <= thr[2]

\* one slice of utils.batch_slice([boxes, scores], s_nms, IMAGES_PER_GPU)
NmsSlice ==
    /\ pcN = "run"
    /\ Len(proposals) < IMAGES_PER_GPU
    /\ \E inp \in NmsInputs : \E order \in Orders(inp.scores) :
         /\ nmsBoxes' = inp.bxs
         /\ nmsScores' = inp.scores
         /\ IF ThresholdInRange(nms_threshold)
            THEN LET indices == s_nms_indices(inp.bxs, order, proposal_count, nms_threshold)
                     gathered == Gather(inp.bxs, indices)
                 IN  /\ survivors' = Append(survivors, gathered)
                     /\ proposals' = Append(proposals, s_nms_pad(gathered, proposal_count))
                     /\ pcN' = "run"
            ELSE \* the kernel raises InvalidArgumentError when the batch is run
                 /\ pcN' = "error"
                 /\ UNCHANGED <<survivors, proposals>>
    /\ UNCHANGED <<proposal_count, nms_threshold>>
    /\ UNCHANGED <<buildVars, lossVars, boxVars, cropVars>>

\* batch_slice stacks the per-image results and the layer returns them
NmsReturn ==
    /\ pcN = "run"
    /\ Len(proposals) = IMAGES_PER_GPU
    /\ pcN' = "done"
    /\ UNCHANGED <<proposal_count, nms_threshold, nmsBoxes, nmsScores, survivors, proposals>>
    /\ UNCHANGED <<buildVars, lossVars, boxVars, cropVars>>

(***************************************************************************)
(* The steps of rpn_mimic_loss_graph                                       *)
(***************************************************************************)
\* lines 381-396: assign the levels, loss = 0.
Assign ==
    /\ pcL = "start"
    /\ roi_level' = RoiLevels(boxes, image_shape)
    /\ loss' = Zero
    /\ i' = 0
    /\ pcL' = "select"
    /\ UNCHANGED <<image_shape, boxes, maps, level_boxes, box_indices, idx, loss_temp,
                   visited>>
    /\ UNCHANGED <<buildVars, nmsVars, boxVars, cropVars>>

\* lines 398-419: the padded lists of level 2 + i, and the loop variables [0, 0.]
Select ==
    /\ pcL = "select"
    /\ level_boxes' = LevelBoxes(boxes, roi_level, 2 + i)
    /\ box_indices' = BoxIndices(roi_level, 2 + i)
    /\ idx' = 0
    /\ loss_temp' = Zero
    /\ pcL' = "loop"
    /\ UNCHANGED <<image_shape, boxes, maps, roi_level, i, loss, visited>>
    /\ UNCHANGED <<buildVars, nmsVars, boxVars, cropVars>>

\* one iteration of tf.while_loop(cond, body, [0, 0.])
Body ==
    /\ pcL = "loop"
    /\ cond(idx)
    /\ IF /\ idx < Len(level_boxes)
          /\ SliceOk(Crop(level_boxes[idx + 1], i, image_shape), i, image_shape)
       THEN \E next \in { body(maps, i, image_shape, level_boxes, box_indices, idx,
                                loss_temp) } :
                /\ idx' = next[1]
                /\ loss_temp' = next[2]
                /\ visited' = Append(visited, <<i, idx>>)
                /\ pcL' = "loop"
       ELSE \* level_boxes[idx] or tf.slice raises InvalidArgumentError
            /\ pcL' = "error"
            /\ UNCHANGED <<idx, loss_temp, visited>>
    /\ UNCHANGED <<image_shape, boxes, maps, roi_level, i, level_boxes, box_indices, loss>>
    /\ UNCHANGED <<buildVars, nmsVars, boxVars, cropVars>>

\* the loop ends: loss += loss_temp[1], and the next level follows
Exit ==
    /\ pcL = "loop"
    /\ ~cond(idx)
    /\ loss' = AddF(loss, loss_temp)
    /\ IF i < 3
       THEN /\ i' = i + 1
            /\ pcL' = "select"
       ELSE /\ i' = i
            /\ pcL' = "normalize"
    /\ UNCHANGED <<image_shape, boxes, maps, roi_level, level_boxes, box_indices, idx,
                   loss_temp, visited>>
    /\ UNCHANGED <<buildVars, nmsVars, boxVars, cropVars>>

\* loss = loss / (2.0 * num_boxes_batch)
Normalize ==
    /\ pcL = "normalize"
    /\ loss' = DivF(loss, 2 * num_boxes_batch)
    /\ pcL' = "done"
    /\ UNCHANGED <<image_shape, boxes, maps, roi_level, i, level_boxes, box_indices, idx,
                   loss_temp, visited>>
    /\ UNCHANGED <<buildVars, nmsVars, boxVars, cropVars>>

\* the whole function as an operator: the same steps, run to the end
RECURSIVE while_loop(_, _, _, _, _, _, _)
while_loop(mp, lvl, shape, lb, bi, k, acc) ==
    IF cond(k)
    THEN LET next == body(mp, lvl, shape, lb, bi, k, acc)
         IN  while_loop(mp, lvl, shape, lb, bi, next[1], next[2])
    ELSE <<k, acc>>

RECURSIVE LevelsFrom(_, _, _, _, _, _)
LevelsFrom(mp, bx, shape, lv, lvl, acc) ==
    IF lvl > 3 THEN acc
    ELSE LET loss_t == while_loop(mp, lvl, shape, LevelBoxes(bx, lv, 2 + lvl),
                                  BoxIndices(lv, 2 + lvl), 0, Zero)
         IN  LevelsFrom(mp, bx, shape, lv, lvl + 1, AddF(acc, loss_t[2]))

rpn_mimic_loss_graph(mp, bx, shape) ==
    DivF(LevelsFrom(mp, bx, shape, RoiLevels(bx, shape), 0, Zero), 2 * num_boxes_batch)

(***************************************************************************)
(* float32.  A value is written as the integer number of units of 2^-27    *)
(* it holds; the values used are multiples of the unit, and below 2^30     *)
(* units in magnitude.  Every operation rounds its exact result to 24      *)
(* significant bits, a tie going to the even neighbour.                    *)
(***************************************************************************)
F32One == 2 ^ 27

\* the number of bits of a >= 0
BitLength(a) ==
    CHOOSE b \in 0..31 : (b = 31 \/ a < 2 ^ b) /\ (b = 0 \/ a >= 2 ^ (b - 1))

RoundF32(n) ==
    LET a == Abs(n)
        k == BitLength(a) - 24
    IN  IF k <= 0 THEN n
        ELSE LET q  == 2 ^ k
                 m  == a \div q
                 r  == a - m * q
                 up == IF 2 * r > q \/ (2 * r = q /\ m % 2 = 1) THEN (m + 1) * q ELSE m * q
             IN  IF n < 0 THEN -up ELSE up

IsF32(n) == RoundF32(n) = n

tf_add(a, b) == RoundF32(a + b)
tf_sub(a, b) == RoundF32(a - b)

\* the product with the float p / 2^k, written <<p, k>>
tf_mul(m, a) == RoundF32((m[1] * a) \div (2 ^ m[2]))

Half32 == <<1, 1>>

\* tf.exp of k * ln 2, taken to be the power of two; tf.exp(0.) is 1.
tf_exp(k) == IF k >= 0 THEN <<2 ^ k, 0>> ELSE <<1, -k>>

(***************************************************************************)
(* s_apply_box_deltas_graph and s_clip_boxes_graph, on one row             *)
(***************************************************************************)
\* the corners taken a whole size, not half a size, away from the centre
s_apply_box_deltas_no_half(bx, d) ==
    LET height   == tf_mul(tf_exp(d[3]), tf_sub(bx[3], bx[1]))
        width    == tf_mul(tf_exp(d[4]), tf_sub(bx[4], bx[2]))
        center_y == tf_add(tf_add(bx[1], tf_mul(Half32, tf_sub(bx[3], bx[1]))),
                           tf_mul(d[1], tf_sub(bx[3], bx[1])))
        center_x == tf_add(tf_add(bx[2], tf_mul(Half32, tf_sub(bx[4], bx[2]))),
                           tf_mul(d[2], tf_sub(bx[4], bx[2])))
        y1       == tf_sub(center_y, height)
        x1       == tf_sub(center_x, width)
    IN  <<y1, x1, tf_add(y1, height), tf_add(x1, width)>>

s_apply_box_deltas_graph(bx, d) ==
    LET \* Convert to y, x, h, w
        height0   == tf_sub(bx[3], bx[1])
        width0    == tf_sub(bx[4], bx[2])
        center_y0 == tf_add(bx[1], tf_mul(Half32, height0))
        center_x0 == tf_add(bx[2], tf_mul(Half32, width0))
        \* Apply deltas
        center_y  == tf_add(center_y0, tf_mul(d[1], height0))
        center_x  == tf_add(center_x0, tf_mul(d[2], width0))
        height    == tf_mul(tf_exp(d[3]), height0)
        width     == tf_mul(tf_exp(d[4]), width0)
        \* Convert back to y1, x1, y2, x2
        y1        == tf_sub(center_y, tf_mul(Half32, height))
        x1        == tf_sub(center_x, tf_mul(Half32, width))
        y2        == tf_add(y1, height)
        x2        == tf_add(x1, width)
    IN  <<y1, x1, y2, x2>>

\* the clip against the far edges of the window only
s_clip_boxes_upper_only(bx, window) ==
    << Min(bx[1], window[3]), Min(bx[2], window[4]),
       Min(bx[3], window[3]), Min(bx[4], window[4]) >>

s_clip_boxes_graph(bx, window) ==
    LET wy1 == window[1]
        wx1 == window[2]
        wy2 == window[3]
        wx2 == window[4]
    IN  << Max(Min(bx[1], wy2), wy1), Max(Min(bx[2], wx2), wx1),
           Max(Min(bx[3], wy2), wy1), Max(Min(bx[4], wx2), wx1) >>

\* window = np.array([0, 0, 1, 1], dtype=np.float32)
window == <<0, 0, F32One, F32One>>

\* boxes = batch_slice([pre_nms_anchors, deltas], s_apply_box_deltas_graph)
ApplyDeltas ==
    /\ pcX = "start"
    /\ refined' = s_apply_box_deltas_graph(anchor, deltas)
    /\ pcX' = "refined"
    /\ UNCHANGED <<anchor, deltas, clipped>>
    /\ UNCHANGED <<buildVars, nmsVars, lossVars, cropVars>>

\* boxes = batch_slice(boxes, lambda x: s_clip_boxes_graph(x, window))
Clip ==
    /\ pcX = "refined"
    /\ clipped' = s_clip_boxes_graph(refined, window)
    /\ pcX' = "clipped"
    /\ UNCHANGED <<anchor, deltas, refined>>
    /\ UNCHANGED <<buildVars, nmsVars, lossVars, cropVars>>

(***************************************************************************)
(* The pixel coordinates of rpn_mimic_loss_graph in float32: a coordinate  *)
(* is an integer count of units 2^-24, and so is a product                 *)
(***************************************************************************)
F24One == 2 ^ 24

\* tf.cast(tf.floor(a), tf.int32) and tf.cast(tf.ceil(a), tf.int32)
floor_int32(a) == a \div F24One
ceil_int32(a) == -((-a) \div F24One)

\* lines 409-419: level_y1_p, level_x1_p, level_h_p, level_w_p of one box,
\* map_h and map_w being whole numbers
level_p(box, lvl, shape) ==
    LET map_h == MapH(lvl, shape)
        map_w == MapW(lvl, shape)
        level_y1_p == floor_int32(RoundF32(box[1] * map_h))
        level_x1_p == floor_int32(RoundF32(box[2] * map_w))
        level_y2_p == ceil_int32(RoundF32(box[3] * map_h))
        level_x2_p == ceil_int32(RoundF32(box[4] * map_w))
    IN  [y1 |-> level_y1_p, x1 |-> level_x1_p,
         h |-> level_y2_p - level_y1_p, w |-> level_x2_p - level_x1_p]

\* lines 409-419 for the box cropBox
PixelCoordinates ==
    /\ pcC = "start"
    /\ cropPix' = level_p(cropBox, cropLevel, cropShape)
    /\ pcC' = "cropped"
    /\ UNCHANGED <<cropBox, cropShape, cropLevel>>
    /\ UNCHANGED <<buildVars, nmsVars, lossVars, boxVars>>

\* lines 427-430: tf.slice of the maps with that begin and size
Slice ==
    /\ pcC = "cropped"
    /\ pcC' = IF SliceOk(cropPix, cropLevel, cropShape) THEN "sliced" ELSE "error"
    /\ UNCHANGED <<cropBox, cropShape, cropLevel, cropPix>>
    /\ UNCHANGED <<buildVars, nmsVars, lossVars, boxVars>>

(***************************************************************************)
(* Initial states and specifications                                       *)
(***************************************************************************)
BuildIdle ==
    /\ pcB = "idle" /\ mode = "training" /\ IMAGE_SHAPE = <<0, 0>>
    /\ TEACHER_BACKBONE = "resnet101" /\ STUDENT_BACKBONE = "resnet50"
    /\ error = "none" /\ inputs = {} /\ layers = {} /\ plain = {}
    /\ outputs = << >> /\ LOSS_WEIGHTS = [rpn_class_loss |-> 1]
    /\ losses = << >> /\ updated = {}
    /\ feature_maps = << >>

NmsIdle ==
    /\ pcN = "idle" /\ proposal_count = 1 /\ nms_threshold = <<1, 2>>
    /\ nmsBoxes = << >> /\ nmsScores = << >> /\ survivors = << >> /\ proposals = << >>

LossIdle ==
    /\ pcL = "idle" /\ image_shape = <<0, 0>> /\ boxes = << >>
    /\ maps = [kind |-> "same", order |-> << >>]
    /\ roi_level = << >> /\ i = 0 /\ level_boxes = << >> /\ box_indices = << >>
    /\ idx = 0 /\ loss_temp = Zero /\ loss = Zero /\ visited = << >>

BoxIdle ==
    /\ pcX = "idle" /\ anchor = << >> /\ deltas = << >>
    /\ refined = << >> /\ clipped = << >>

CropIdle ==
    /\ pcC = "idle" /\ cropBox = << >> /\ cropShape = <<0, 0>>
    /\ cropLevel = 0 /\ cropPix = << >>

\* image sides 64 * q + r
MaxQuot == 4
Remainders == {0, 58}
ImageDims == { 64 * q + r : q \in 1..MaxQuot, r \in Remainders }

LossWeightChoices ==
    { [rpn_class_loss |-> 1, rpn_bbox_loss |-> 1, rpn_mimic_loss |-> 3],
      [rpn_class_loss |-> 2] }

InitBuild ==
    /\ pcB = "new"
    /\ mode \in Modes
    /\ IMAGE_SHAPE \in ImageDims \X ImageDims
    /\ TEACHER_BACKBONE \in Architectures
    /\ STUDENT_BACKBONE \in Architectures
    /\ LOSS_WEIGHTS \in LossWeightChoices
    /\ error = "none" /\ inputs = {} /\ layers = {} /\ plain = {}
    /\ outputs = << >> /\ losses = << >> /\ updated = {}
    /\ feature_maps = << >>
    /\ NmsIdle /\ LossIdle /\ BoxIdle /\ CropIdle

NextBuild ==
    \/ Build /\ UNCHANGED <<nmsVars, lossVars, boxVars, cropVars>>
    \/ \E arg \in LayerArgs : Train(arg) /\ UNCHANGED <<nmsVars, lossVars, boxVars, cropVars>>

SpecBuild == InitBuild /\ [][NextBuild]_vars

InitNms ==
    /\ pcN = "new"
    /\ proposal_count = 0
    /\ nms_threshold = <<0, 1>>
    /\ nmsBoxes = << >> /\ nmsScores = << >> /\ survivors = << >> /\ proposals = << >>
    /\ BuildIdle /\ LossIdle /\ BoxIdle /\ CropIdle

NextNms ==
    \/ \E count \in ProposalCounts, threshold \in NmsThresholdSettings :
          s_ProposalLayer_init(count, threshold)
    \/ NmsSlice
    \/ NmsReturn

SpecNms == InitNms /\ [][NextNms]_vars

\* the assigned ROIs of one image: consecutive boxes of BoxCycle, the last z
\* of them zero padding (DetectionTargetLayer pads its ROIs with zeros); an
\* image has no padding, one padding entry, or nothing but padding
BoxCycle == << <<1, 1, 2, 2>>, <<0, 0, 8, 8>>, <<2, 3, 5, 3>>,
               <<0, 0, 2, 4>>, <<1, 1, 5, 6>>, <<3, 3, 8, 8>> >>
Offsets == {0, 2, 4}
RoiList(o, z) ==
    [r \in 1..TRAIN_ROIS_PER_IMAGE |->
        IF r > TRAIN_ROIS_PER_IMAGE - z THEN ZeroBox
        ELSE BoxCycle[((o + r - 1) % Len(BoxCycle)) + 1]]
RoiLists == { RoiList(o, z) : o \in Offsets, z \in {0, 1, TRAIN_ROIS_PER_IMAGE} }

ImageShapes == { <<320, 320>>, <<256, 256>> }
Identity == [b \in 1..BATCH_SIZE |-> b]

InitLoss ==
    /\ pcL = "start"
    /\ image_shape \in ImageShapes
    /\ boxes \in [1..BATCH_SIZE -> RoiLists]
    /\ maps \in { [kind |-> k, order |-> Identity] : k \in MapKinds }
    /\ roi_level = << >> /\ i = 0 /\ level_boxes = << >> /\ box_indices = << >>
    /\ idx = 0 /\ loss_temp = Zero /\ loss = Zero /\ visited = << >>
    /\ BuildIdle /\ NmsIdle /\ BoxIdle /\ CropIdle

\* anchor coordinates: -0.25, 0, float32(0.3), float32(0.7), 1, 1.25
AnchorYs == { -(2 ^ 25), 0, 10066330 * 4, 11744051 * 8, F32One, F32One + 2 ^ 25 }
AnchorXs == { 0, 10066330 * 4, 11744051 * 8, F32One }
AnchorRows ==
    { b \in AnchorYs \X AnchorXs \X AnchorYs \X AnchorXs : b[1] < b[3] /\ b[2] < b[4] }

\* a row of deltas: (dy, dx) as floats p / 2^k, (log(dh), log(dw)) as multiples of ln 2
DeltaRows ==
    { <<dy, dx, ldh, ldw>> : dy \in { <<0, 0>>, <<1, 1>>, <<-1, 1>> },
                             dx \in { <<0, 0>>, <<1, 1>> },
                             ldh \in { -1, 0, 1 }, ldw \in { 0, 1 } }

InitBox ==
    /\ pcX = "start"
    /\ anchor \in AnchorRows
    /\ deltas \in DeltaRows
    /\ refined = << >> /\ clipped = << >>
    /\ BuildIdle /\ NmsIdle /\ LossIdle /\ CropIdle

NextBox == ApplyDeltas \/ Clip

SpecBox == InitBox /\ [][NextBox]_vars

\* box coordinates in units of 2^-24: 0, 0.25, 0.5, float32(0.9) and the
\* float next to it, the float below 1, and 1
CropCoordinates ==
    { 0, 2 ^ 22, 2 ^ 23, 15099494, 15099495, F24One - 1, F24One }
CropBoxes ==
    { b \in CropCoordinates \X CropCoordinates \X CropCoordinates \X CropCoordinates :
          b[1] < b[3] /\ b[2] < b[4] }
CropShapes == { <<320, 320>>, <<256, 256>>, <<256, 320>> }

InitCrop ==
    /\ pcC = "start"
    /\ cropBox \in CropBoxes
    /\ cropShape \in CropShapes
    /\ cropLevel \in 0..3
    /\ cropPix = << >>
    /\ BuildIdle /\ NmsIdle /\ LossIdle /\ BoxIdle

NextCrop == PixelCoordinates \/ Slice

SpecCrop == InitCrop /\ [][NextCrop]_vars

NextLoss == Assign \/ Select \/ Body \/ Exit \/ Normalize

SpecLoss == InitLoss /\ [][NextLoss]_vars

\* the session runs the graph to its end: no step that can be taken is put
\* off for ever
SpecLossFair == SpecLoss /\ WF_vars(NextLoss)

Init == InitBuild \/ InitNms \/ InitLoss \/ InitBox \/ InitCrop
Next == NextBuild \/ NextNms \/ NextLoss \/ NextBox \/ NextCrop
Spec == Init /\ [][Next]_vars

(***************************************************************************)
(* The claims                                                              *)
(***************************************************************************)
IsStudentName(name) == StartsWith(name, s_prefix)

\* C1: once the model is built, and after every call of train, every layer
\* whose weights the optimizer may update is a student layer (name starting
\* with 's_'), and no teacher layer was ever updated.
C1_OnlyStudentTrainable ==
    pcB \in {"built", "trained"} =>
        /\ \A l \in layers : l.trainable => IsStudentName(l.name)
        /\ \A n \in updated : IsStudentName(n)

\* the student and teacher maps agree inside every crop of every assigned box
IdenticalInCrops ==
    \A b \in 1..BATCH_SIZE : \A r \in 1..TRAIN_ROIS_PER_IMAGE :
        LET lvl == RoiLevel(boxes[b][r], image_shape) - 2
            c == Crop(boxes[b][r], lvl, image_shape)
        IN  \A y \in c.y1..(c.y1 + c.h - 1) : \A x \in c.x1..(c.x1 + c.w - 1) :
                Student(maps, lvl, b - 1, y, x, image_shape) = Teacher(maps, lvl, b - 1, y, x)

\* C2: the returned mimic loss is a number >= 0, and it is 0 when the maps
\* agree inside every crop of every assigned proposal.
C2_LossNonNegative ==
    pcL = "done" =>
        /\ ~loss.nan
        /\ loss.num >= 0
        /\ IdenticalInCrops => loss = Zero

\* C3: every image gets exactly proposal_count boxes: the survivors of the
\* suppression first, then all-zero boxes; the result has one such list per image.
C3_ProposalShape ==
    /\ Len(proposals) = Len(survivors)
    /\ pcN = "done" => Len(proposals) = IMAGES_PER_GPU
    /\ \A b \in 1..Len(proposals) :
          /\ Len(proposals[b]) = proposal_count
          /\ Len(survivors[b]) <= proposal_count
          /\ \A k \in 1..proposal_count :
                /\ Len(proposals[b][k]) = 4
                /\ proposals[b][k] = IF k <= Len(survivors[b]) THEN survivors[b][k]
                                      ELSE ZeroBox

\* C3 happens: a batch is returned in which one image has no survivor at all
\* and another has some, but fewer than proposal_count
C3_Witness ==
    /\ pcN = "done"
    /\ \E b \in 1..Len(survivors) : Len(survivors[b]) = 0
    /\ \E b \in 1..Len(survivors) :
          Len(survivors[b]) > 0 /\ Len(survivors[b]) < proposal_count

\* an entry of the loop is degenerate when its crop has no height or no width
Degenerate(k) ==
    LET c == Crop(level_boxes[k], i, image_shape) IN c.h = 0 \/ c.w = 0

\* C4: padding entries and crops without height or width add exactly 0 and
\* raise nothing: as long as only such entries were processed, the level's
\* total is 0 (so a level without assigned proposals ends with total 0).
C4_DegenerateAddZero ==
    /\ pcL # "error"
    /\ (pcL = "loop" /\ \A k \in 1..idx : Degenerate(k)) => loss_temp = Zero

IsMultipleOf64(h) == \E q \in 0..(MaxQuot + 1) : h = 64 * q

\* C5: build raises the size exception exactly when the height or the width
\* is not a multiple of 64, and then no input and no layer has been created.
C5_SizeRejected ==
    (pcB # "new" /\ mode \in {"training", "inference"}) =>
        /\ (error = "Exception")
             <=> ~(IsMultipleOf64(IMAGE_SHAPE[1]) /\ IsMultipleOf64(IMAGE_SHAPE[2]))
        /\ error = "Exception" =>
             (inputs = {} /\ layers = {} /\ plain = {} /\ outputs = << >>)

\* C5 happens: a 250 x 250 configuration was rejected, and a configuration
\* with both sides multiples of 64 was built
C5_WitnessRejected ==
    pcB = "failed" /\ IMAGE_SHAPE = <<250, 250>> /\ error = "Exception"

\* C6: building in 'inference' mode succeeds and gives the student detection
\* path up to the proposal layer without ground-truth inputs and without
\* losses; building in 'training' mode gives the ground-truth inputs and the
\* three losses.
C6_InferenceBuilds ==
    (pcB # "new" /\ IsMultipleOf64(IMAGE_SHAPE[1]) /\ IsMultipleOf64(IMAGE_SHAPE[2])) =>
        /\ mode = "inference" =>
              /\ error = "none"
              /\ pcB \in {"built", "trained"}
              /\ inputs \cap TrainingInputs = {}
              /\ plain \cap LossLayers = {}
              /\ StudentLayers(STUDENT_BACKBONE) \subseteq layers
              /\ "s_ROI" \in plain
        /\ mode = "training" =>
              /\ error = "none"
              /\ TrainingInputs \subseteq inputs
              /\ LossLayers \subseteq plain
              /\ "s_ROI" \in plain

\* the permutations of the batch
Perms == { p \in [1..BATCH_SIZE -> 1..BATCH_SIZE] :
             \A a, b \in 1..BATCH_SIZE : a # b => p[a] # p[b] }

\* two losses compare equal as floats: NaN equals nothing
FloatEq(a, b) == ~a.nan /\ ~b.nan /\ a = b

\* C7: permuting the images of the batch (maps and boxes alike) leaves the
\* mimic loss the same.
C7_PermutationInvariant ==
    pcL = "done" =>
        \A p \in Perms :
            FloatEq(loss,
                    rpn_mimic_loss_graph([maps EXCEPT !.order = [b \in 1..BATCH_SIZE |->
                                                                   maps.order[p[b]]]],
                                         [b \in 1..BATCH_SIZE |-> boxes[p[b]]],
                                         image_shape))

\* the images whose assigned ROIs are all zero padding
EmptyImages == { b \in 1..BATCH_SIZE : \A r \in 1..TRAIN_ROIS_PER_IMAGE : boxes[b][r] = ZeroBox }

\* C8: no box of an image without ground truth is selected by the level test
\* of any level, such an image adds 0 to the loss, and nothing is raised.
C8_EmptyImageNotSelected ==
    /\ pcL # "error"
    /\ pcL \in {"loop", "normalize", "done"} =>
          \A lvl \in 2..5 : \A k \in 1..Len(Where(roi_level, lvl)) :
              Where(roi_level, lvl)[k][1] \notin EmptyImages
    /\ (pcL = "done" /\ EmptyImages = 1..BATCH_SIZE) => loss = Zero

\* the area of a box in pixels, times Grid * Grid
PixelArea(box, shape) == (box[3] - box[1]) * (box[4] - box[2]) * shape[1] * shape[2]

\* clamp(4 + round(log2(sqrt(area) / 224)), 2, 5) by its thresholds on
\* area / 224^2: above 1/8 at least 3, from 1/2 on at least 4, above 2 it is 5
LevelOfArea(a) ==
    LET d == Grid * Grid * 224 * 224
    IN  2 + (IF 8 * a > d THEN 1 ELSE 0) + (IF 2 * a >= d THEN 1 ELSE 0)
          + (IF a > 2 * d THEN 1 ELSE 0)

\* C9: every assigned level is one of 2, 3, 4, 5, a box with the larger area
\* never gets the lower level, and the level is the clamped formula's value.
C9_LevelMonotonic ==
    pcL \notin {"idle", "start"} =>
        \A b1, b2 \in 1..BATCH_SIZE : \A r1, r2 \in 1..TRAIN_ROIS_PER_IMAGE :
            /\ roi_level[b1][r1] \in 2..5
            /\ roi_level[b1][r1] = LevelOfArea(PixelArea(boxes[b1][r1], image_shape))
            /\ PixelArea(boxes[b1][r1], image_shape) <= PixelArea(boxes[b2][r2], image_shape)
                  => roi_level[b1][r1] <= roi_level[b2][r2]

\* C9 happens: the levels are assigned and the batch holds a box of level 2
\* and a box of level 5
C9_Witness ==
    /\ pcL = "select"
    /\ \E b1, b2 \in 1..BATCH_SIZE : \E r1, r2 \in 1..TRAIN_ROIS_PER_IMAGE :
          /\ roi_level[b1][r1] = 2 /\ PixelArea(boxes[b1][r1], image_shape) > 0
          /\ roi_level[b2][r2] = 5

\* IoU(a, b) compared with thr = <<numerator, denominator>>
IoUBelow(a, b, thr) ==
    Intersection(a, b) * thr[2] < thr[1] * (BoxArea(a) + BoxArea(b) - Intersection(a, b))
IoUAtMost(a, b, thr) ==
    Intersection(a, b) * thr[2] <= thr[1] * (BoxArea(a) + BoxArea(b) - Intersection(a, b))

\* C10 as stated: two distinct survivors of one image have IoU strictly below
\* nms_threshold.
C10_StrictlyBelow ==
    \A b \in 1..Len(survivors) : \A p, q \in 1..Len(survivors[b]) :
        (p # q /\ BoxArea(survivors[b][p]) > 0 /\ BoxArea(survivors[b][q]) > 0)
            => IoUBelow(survivors[b][p], survivors[b][q], nms_threshold)

\* C10 amended: two distinct survivors of one image have IoU at most
\* nms_threshold (a box is suppressed only when its IoU exceeds the threshold).
C10_AtMostThreshold ==
    \A b \in 1..Len(survivors) : \A p, q \in 1..Len(survivors[b]) :
        p # q => IoUAtMost(survivors[b][p], survivors[b][q], nms_threshold)

\* C10 happens: two overlapping boxes both survived in one image, and in
\* another image a box was suppressed
C10_Witness ==
    /\ \E b \in 1..Len(survivors) : \E p, q \in 1..Len(survivors[b]) :
          p # q /\ Intersection(survivors[b][p], survivors[b][q]) > 0
    /\ Len(survivors) > 0
    /\ Len(survivors[Len(survivors)]) < proposal_count
    /\ Len(survivors[Len(survivors)]) < Len(nmsBoxes)

ZeroDeltas == << <<0, 0>>, <<0, 0>>, 0, 0 >>

\* twice the centre and the size the deltas ask for, in exact arithmetic:
\* centre + delta * size, and size * exp(log delta)
TwiceCentre(lo, hi, d) == (lo + hi) + (2 * d[1] * (hi - lo)) \div (2 ^ d[2])
ScaledSize(lo, hi, ld) == (tf_exp(ld)[1] * (hi - lo)) \div (2 ^ tf_exp(ld)[2])

\* the largest distance between the coordinates of two rows
RowDistance(a, b) ==
    Max(Max(Abs(a[1] - b[1]), Abs(a[2] - b[2])), Max(Abs(a[3] - b[3]), Abs(a[4] - b[4])))

\* how far the centre and the size of the result are from the exact values
CentreSizeError ==
    Max(Max(Abs((refined[1] + refined[3]) - TwiceCentre(anchor[1], anchor[3], deltas[1])),
            Abs((refined[2] + refined[4]) - TwiceCentre(anchor[2], anchor[4], deltas[2]))),
        Max(Abs((refined[3] - refined[1]) - ScaledSize(anchor[1], anchor[3], deltas[3])),
            Abs((refined[4] - refined[2]) - ScaledSize(anchor[2], anchor[4], deltas[4]))))

\* 2^-23 and 2^-21, in units
IdentityTolerance == 2 ^ 4
GeneralTolerance  == 2 ^ 6

\* C11 as stated: with all-zero deltas the result is the same box, and in
\* general the new centre is centre + delta * size and the new size is
\* size * exp(delta), exactly.
C11_ZeroDeltasIdentity ==
    pcX \in {"refined", "clipped"} =>
        /\ deltas = ZeroDeltas => refined = anchor
        /\ CentreSizeError = 0

\* C11 amended: with all-zero deltas the result is the input box up to the
\* rounding of float32 (every coordinate within 2^-23 of the input, for boxes
\* with coordinates in [-0.25, 1.25]); in general the centre and the size of
\* the result are centre + delta * size and size * exp(delta) up to rounding.
C11_IdentityUpToRounding ==
    pcX \in {"refined", "clipped"} =>
        /\ deltas = ZeroDeltas => RowDistance(refined, anchor) <= IdentityTolerance
        /\ CentreSizeError <= GeneralTolerance

\* C11 happens: all-zero deltas were applied and a coordinate came back rounded
C11_Witness ==
    /\ pcX = "refined"
    /\ deltas = ZeroDeltas
    /\ refined # anchor

InWindow(c) == 0 <= c /\ c <= F32One

\* C12: after the clip to [0, 0, 1, 1] every coordinate lies in [0, 1], a box
\* whose coordinates already lie in [0, 1] is returned unchanged, and clipping
\* the result again changes nothing.
C12_ClippedInWindow ==
    pcX = "clipped" =>
        /\ \A k \in 1..4 : InWindow(clipped[k])
        /\ (\A k \in 1..4 : InWindow(refined[k])) => clipped = refined
        /\ s_clip_boxes_graph(clipped, window) = clipped

\* C12 happens: a box with a coordinate below 0 and a coordinate above 1 was clipped
C12_Witness ==
    /\ pcX = "clipped"
    /\ \E k \in 1..4 : refined[k] < 0
    /\ \E k \in 1..4 : refined[k] > F32One
    /\ clipped # refined

\* the divisors of the claim for [C1, C2, C3, C4, C5]
LevelDivisors == <<4, 4, 8, 16, 32>>

\* C14: for an image whose sides are multiples of 64, the maps C1..C5 of
\* s_resnet_graph have exactly the image's height and width divided by
\* 4, 4, 8, 16 and 32, for resnet50 and for resnet101.
C14_FeatureMapSizes ==
    feature_maps # << >> =>
        \A k \in 1..5 : \A d \in 1..2 :
            /\ IMAGE_SHAPE[d] % LevelDivisors[k] = 0
            /\ feature_maps[k][d] * LevelDivisors[k] = IMAGE_SHAPE[d]

\* C14 happens: the student was built with resnet101 on an image that is not
\* square, and its maps are recorded
C14_Witness ==
    /\ pcB = "built"
    /\ STUDENT_BACKBONE = "resnet101"
    /\ IMAGE_SHAPE[1] # IMAGE_SHAPE[2]
    /\ feature_maps[5] = <<IMAGE_SHAPE[1] \div 32, IMAGE_SHAPE[2] \div 32>>

\* the terms of the registered losses of a kind, resp. of a loss name
TermsOfKind(kind) == { k \in 1..Len(losses) : losses[k].kind = kind }
TermsOfName(name) == { k \in TermsOfKind("loss") : losses[k].name = name }

ConfiguredWeight(name) ==
    IF name \in DOMAIN LOSS_WEIGHTS THEN LOSS_WEIGHTS[name] ELSE 1

\* one term per loss name, with the configured weight, and nothing else but
\* regularization terms
OneTermPerLoss ==
    /\ \A name \in LossLayers :
          /\ Cardinality(TermsOfName(name)) = 1
          /\ \A k \in TermsOfName(name) : losses[k].weight = ConfiguredWeight(name)
    /\ Cardinality(TermsOfKind("loss")) = Cardinality(LossLayers)
    /\ Len(losses) = Cardinality(TermsOfKind("loss")) + Cardinality(TermsOfKind("l2"))

\* one regularization term, over the trainable kernels and biases
OneRegTerm ==
    /\ Cardinality(TermsOfKind("l2")) = 1
    /\ \A k \in TermsOfKind("l2") :
          /\ \A w \in losses[k].over : w[2] \notin {"gamma", "beta"}
          /\ losses[k].over =
                { w \in trainable_weights(layers) : w[2] \in {"kernel", "bias"} }

\* C15 as stated: after any number of calls of compile the registered losses
\* are one term per loss name with its configured weight, and exactly one
\* regularization term that leaves out gamma and beta.
C15_LossesAfterCompile ==
    pcB \in {"trained", "compile_failed"} => OneTermPerLoss /\ OneRegTerm

\* C15 amended: after any number of calls the registered losses are one term
\* per loss name with its configured weight, never a duplicate; a call that
\* returns has added exactly one regularization term that leaves out gamma
\* and beta, and a call with no trainable weight outside gamma and beta has
\* raised ValueError and added no regularization term.
C15_LossesAfterCompileThatReturns ==
    /\ pcB \in {"trained", "compile_failed"} => OneTermPerLoss
    /\ pcB = "trained" => OneRegTerm
    /\ pcB = "compile_failed" =>
          /\ error = "ValueError"
          /\ TermsOfKind("l2") = {}
          /\ { w \in trainable_weights(layers) : w[2] \in {"kernel", "bias"} } = {}

\* C15 happens: compile has returned at least twice on this model (layers
\* were updated that are frozen now), with a loss name missing in LOSS_WEIGHTS
C15_Witness ==
    /\ pcB = "trained"
    /\ Len(losses) = 4
    /\ \E name \in updated : \A w \in trainable_weights(layers) : w[1] # name
    /\ \E name \in LossLayers : name \notin DOMAIN LOSS_WEIGHTS

\* C13: a proposal count that is not positive and a threshold outside [0, 1]
\* are rejected when the layer is created: a layer that exists has a positive
\* proposal_count and a threshold in [0, 1].
C13_SettingsRejected ==
    pcN \in {"run", "error", "done"} =>
        /\ proposal_count > 0
        /\ 0 <= nms_threshold[1] /\ nms_threshold[1] <= nms_threshold[2]

\* the indices 0, 1, ..., n - 1 in their order
Indices(n) == [k \in 1..n |-> k - 1]

\* the values of idx the body ran with at level index lvl, in the order of the runs
VisitedAt(lvl) ==
    LET runs == SelectSeq(visited, LAMBDA v : v[1] = lvl)
    IN  [k \in 1..Len(runs) |-> runs[k][2]]

\* a level's loop has ended and the next has not begun
LevelEnded == pcL \in {"normalize", "done"} \/ (pcL = "select" /\ i > 0)

\* C16: in the loop of every level the index starts at 0, goes up by exactly
\* 1 with every iteration, the body runs with each of 0 .. capacity - 1
\* exactly once, the loop ends with the index equal to the capacity
\* batch_size * proposals_per_image, and it does end, at every level.
C16_LoopRunsToCapacity ==
    /\ [](pcL = "loop" => idx <= num_boxes_batch /\ VisitedAt(i) = Indices(idx))
    /\ [](LevelEnded =>
            /\ idx = num_boxes_batch
            /\ \A lvl \in 0..3 :
                   VisitedAt(lvl) = IF lvl < i \/ pcL # "select"
                                    THEN Indices(num_boxes_batch) ELSE << >>)
    /\ [][pcL = "loop" /\ pcL' = "loop" => idx' = idx + 1]_vars
    /\ [][pcL = "select" => pcL' = "loop" /\ idx' = 0]_vars
    /\ (pcL = "loop") ~> LevelEnded

\* C16 happens: the four loops have ended, and the last level had no
\* proposal of its own (all its entries were padding)
C16_Witness ==
    /\ pcL = "done"
    /\ i = 3
    /\ VisitedAt(3) = Indices(num_boxes_batch)
    /\ \A b \in 1..BATCH_SIZE : \A r \in 1..TRAIN_ROIS_PER_IMAGE : roi_level[b][r] # 5

\* the positions of roi_level that hold the level of the running loop
Selected == { p \in (1..BATCH_SIZE) \X (1..TRAIN_ROIS_PER_IMAGE) :
                  roi_level[p[1]][p[2]] = 2 + i }

\* the lists of level 2 + i are built
ListsBuilt == pcL \in {"loop", "error", "normalize", "done"}

\* the place of a selected position among the selected ones, by image and
\* then by proposal (the order of tf.where)
RankOf(p) ==
    Cardinality({ q \in Selected : q[1] < p[1] \/ (q[1] = p[1] /\ q[2] <= p[2]) })

\* C17: for each level the number of selected proposals is at most the
\* capacity batch_size * proposals_per_image (so P >= 0), both padded lists
\* have exactly capacity entries, the selected proposals fill the first
\* entries in their order, each with its own box and the batch index of its
\* image, and every padding entry is the all-zero box with image index 0.
C17_PaddedLists ==
    ListsBuilt =>
        LET n == Cardinality(Selected)
        IN  /\ n <= num_boxes_batch
            /\ Len(level_boxes) = num_boxes_batch
            /\ Len(box_indices) = num_boxes_batch
            /\ \A p \in Selected :
                    /\ RankOf(p) \in 1..n
                    /\ level_boxes[RankOf(p)] = boxes[p[1]][p[2]]
                    /\ box_indices[RankOf(p)] = p[1] - 1
            /\ \A k \in (n + 1)..num_boxes_batch :
                    level_boxes[k] = ZeroBox /\ box_indices[k] = 0

\* C17 happens: a level with selected proposals of the second image and with
\* padding, some of both already taken by the loop
C17_Witness ==
    /\ pcL = "loop"
    /\ Cardinality(Selected) \in 1..(num_boxes_batch - 1)
    /\ \E p \in Selected : p[1] = 2
    /\ idx > Cardinality(Selected)
    /\ box_indices[Cardinality(Selected)] = 1

Positions == (1..BATCH_SIZE) \X (1..TRAIN_ROIS_PER_IMAGE)

\* the positions whose level is 2 + lvl
SelectedAt(lvl) == { p \in Positions : roi_level[p[1]][p[2]] = 2 + lvl }

RECURSIVE SumOver(_, _)
SumOver(f, S) ==
    IF S = {} THEN 0
    ELSE LET e == CHOOSE x \in S : TRUE IN f[e] + SumOver(f, S \ {e})

\* the entries that the loops have taken beyond the selected ones of their level
PaddingVisited ==
    Cardinality({ k \in 1..Len(visited) :
                      visited[k][2] >= Cardinality(SelectedAt(visited[k][1])) })

LevelsAssigned == pcL # "start"

\* C19: every one of the batch_size * proposals_per_image boxes, those of
\* zero area included, has exactly one of the levels 2, 3, 4, 5, so the
\* numbers of selected boxes of the four levels add up to
\* batch_size * proposals_per_image; when the four loops have ended they
\* have taken 4 * batch_size * proposals_per_image entries, of which
\* 3 * batch_size * proposals_per_image are padding; and the last step
\* divides the total by 2 * batch_size * proposals_per_image.
C19_LevelsPartitionBatch ==
    /\ [](LevelsAssigned =>
            /\ \A p \in Positions :
                    Cardinality({ lvl \in 0..3 : p \in SelectedAt(lvl) }) = 1
            /\ SumOver([lvl \in 0..3 |-> Cardinality(SelectedAt(lvl))], 0..3)
                   = num_boxes_batch)
    /\ [](pcL \in {"normalize", "done"} =>
            /\ Len(visited) = 4 * num_boxes_batch
            /\ PaddingVisited = 3 * num_boxes_batch)
    /\ [][pcL = "normalize" =>
            /\ pcL' = "done"
            /\ loss'.nan = loss.nan
            /\ loss'.num * loss.den * (2 * num_boxes_batch) = loss.num * loss'.den]_vars

\* C19 happens: the function has returned, for a batch that holds a box of
\* zero area and boxes of two or more levels
C19_Witness ==
    /\ pcL = "done"
    /\ \E p \in Positions : boxes[p[1]][p[2]] = ZeroBox
    /\ Cardinality({ lvl \in 0..3 : SelectedAt(lvl) # {} }) >= 2
    /\ Len(visited) = 4 * num_boxes_batch

NonDegenerate(b) ==
    /\ 0 <= b[1] /\ b[1] < b[3] /\ b[3] <= F24One
    /\ 0 <= b[2] /\ b[2] < b[4] /\ b[4] <= F24One

\* C18: for every box with 0 <= y1 < y2 <= 1 and 0 <= x1 < x2 <= 1 and every
\* level, the pixel crop has height >= 1 and width >= 1 and lies inside the
\* map_h x map_w grid of the level, so that tf.slice gets a region that is
\* neither empty nor out of bounds.
C18_CropNonEmptyInside ==
    pcC \in {"cropped", "sliced", "error"} /\ NonDegenerate(cropBox) =>
        /\ cropPix.h >= 1 /\ cropPix.w >= 1
        /\ cropPix.y1 >= 0 /\ cropPix.x1 >= 0
        /\ cropPix.y1 + cropPix.h <= MapH(cropLevel, cropShape)
        /\ cropPix.x1 + cropPix.w <= MapW(cropLevel, cropShape)
        /\ pcC # "error"

====
